---- MODULE Spec2Model ----
(***************************************************************************)
(* A model of tome (ctiedt/tome): a file-backed wiki.                      *)
(*                                                                         *)
(*   src/src/main.rs     Article / Index / Overview and the HTTP handlers  *)
(*   src/src/filters.rs  custom_md, the Markdown filter                    *)
(*                                                                         *)
(* Strings that the code inspects byte by byte (titles, slugs, file names) *)
(* are sequences of byte values; article contents are opaque blobs.        *)
(* Three specifications share the variables:                               *)
(*   Spec       the store: the handlers acting on the content/ directory   *)
(*   SpecCodec  the slug codec applied to pairs of titles                  *)
(*   SpecMd     custom_md applied to documents of link constructs          *)
(***************************************************************************)
EXTENDS Integers, Sequences, FiniteSets, TLC

VARIABLES
    fs,         \* the directory tree below the working directory: path -> node
    now,        \* the system clock (SystemTime), in ticks
    inflight,   \* post_article requests between two awaits of write_to_disk
    nreq,       \* number of post_article requests started so far
    done,       \* ghost: the appends that completed with Ok(())
    last,       \* the most recent step: a write handler's response or an I/O step
    ctitle,     \* SpecCodec: the pair of titles under test
    cslug,      \* SpecCodec: their slugs (Article::path)
    cdec,       \* SpecCodec: the slugs decoded again (Overview::load)
    cpc,        \* SpecCodec: position
    mdoc,       \* SpecMd: the Markdown document given to custom_md
    mpos,       \* SpecMd: number of link constructs already rendered
    mout        \* SpecMd: the links pushed to the HTML output so far

vars == <<fs, now, inflight, nreq, done, last, ctitle, cslug, cdec, cpc, mdoc, mpos, mout>>
storeVars == <<fs, now, inflight, nreq, done, last>>
codecVars == <<ctitle, cslug, cdec, cpc>>
mdVars == <<mdoc, mpos, mout>>

\* ------------------------------------------------------------------ bounds
MaxAppends == 2
MaxClock == 2
MaxTitleChars == 3
MaxLinks == 2

\* ------------------------------------------------------------ byte strings
\* "current", ".md", "index", "content", "articles", "media" as bytes
CURRENT == <<99, 117, 114, 114, 101, 110, 116>>
DOT_MD == <<46, 109, 100>>
INDEX == <<105, 110, 100, 101, 120>>
CONTENT == <<99, 111, 110, 116, 101, 110, 116>>
ARTICLES == <<97, 114, 116, 105, 99, 108, 101, 115>>
MEDIA == <<109, 101, 100, 105, 97>>

RECURSIVE Concat(_)
Concat(ss) == IF ss = <<>> THEN <<>> ELSE Head(ss) \o Concat(Tail(ss))

EndsWith(s, suffix) ==
    /\ Len(s) >= Len(suffix)
    /\ SubSeq(s, Len(s) - Len(suffix) + 1, Len(s)) = suffix

StartsWith(s, prefix) ==
    /\ Len(s) >= Len(prefix)
    /\ SubSeq(s, 1, Len(prefix)) = prefix

\* str::replace(pat, ""): every non-overlapping match removed, left to right
RECURSIVE RemoveAll(_, _)
RemoveAll(s, pat) ==
    IF s = <<>> THEN <<>>
    ELSE IF StartsWith(s, pat) THEN RemoveAll(SubSeq(s, Len(pat) + 1, Len(s)), pat)
    ELSE <<Head(s)>> \o RemoveAll(Tail(s), pat)

\* -------------------------------------------------------------- slug codec
\* urlencoding::encode keeps ASCII alphanumerics and - . _ ~
IsUnreserved(b) ==
    \/ b \in 48..57
    \/ b \in 65..90
    \/ b \in 97..122
    \/ b \in {45, 46, 95, 126}

\* upper-case hex digit of a nibble
ToHexDigit(n) == IF n < 10 THEN 48 + n ELSE 55 + n

FromHexDigit(b) ==
    IF b \in 48..57 THEN b - 48
    ELSE IF b \in 65..70 THEN b - 55
    ELSE IF b \in 97..102 THEN b - 87
    ELSE -1

EncodeByteKeepPercent(b) ==
    IF IsUnreserved(b) \/ b = 37 THEN <<b>>
    ELSE <<37, ToHexDigit(b \div 16), ToHexDigit(b % 16)>>

EncodeByte(b) ==
    IF IsUnreserved(b) THEN <<b>>
    ELSE <<37, ToHexDigit(b \div 16), ToHexDigit(b % 16)>>

RECURSIVE UrlEncode(_)
UrlEncode(s) == IF s = <<>> THEN <<>> ELSE EncodeByte(Head(s)) \o UrlEncode(Tail(s))

\* urlencoding::decode_binary: %XX with two hex digits becomes the byte; a '%'
\* followed by anything else stays, and scanning resumes right after what was kept
RECURSIVE DecodeBinary(_)
DecodeBinary(s) ==
    IF s = <<>> THEN <<>>
    ELSE IF Head(s) # 37 THEN <<Head(s)>> \o DecodeBinary(Tail(s))
    ELSE LET rest == Tail(s) IN
         IF Len(rest) < 2 THEN <<37>> \o rest
         ELSE IF FromHexDigit(rest[1]) < 0 THEN <<37>> \o DecodeBinary(rest)
         ELSE IF FromHexDigit(rest[2]) < 0 THEN <<37, rest[1]>> \o DecodeBinary(Tail(rest))
         ELSE <<16 * FromHexDigit(rest[1]) + FromHexDigit(rest[2])>>
              \o DecodeBinary(SubSeq(rest, 3, Len(rest)))

IsCont(s, i) == i <= Len(s) /\ s[i] \in 128..191

\* String::from_utf8: lead byte classes and their continuation bytes
RECURSIVE IsUtf8(_)
IsUtf8(s) ==
    IF s = <<>> THEN TRUE
    ELSE LET b == Head(s) IN
         IF b < 128 THEN IsUtf8(Tail(s))
         ELSE IF b \in 194..223 THEN IsCont(s, 2) /\ IsUtf8(SubSeq(s, 3, Len(s)))
         ELSE IF b \in 224..239
              THEN IsCont(s, 2) /\ IsCont(s, 3) /\ IsUtf8(SubSeq(s, 4, Len(s)))
         ELSE IF b \in 240..244
              THEN IsCont(s, 2) /\ IsCont(s, 3) /\ IsCont(s, 4)
                   /\ IsUtf8(SubSeq(s, 5, Len(s)))
         ELSE FALSE

\* urlencoding::decode: Result<Cow<str>, FromUtf8Error>
UrlDecode(slug) ==
    LET bytes == DecodeBinary(slug) IN
    IF IsUtf8(bytes) THEN [ok |-> TRUE, val |-> bytes] ELSE [ok |-> FALSE, val |-> <<>>]

\* Article::path
Article_path(title) == UrlEncode(title)

\* The characters titles are drawn from in SpecCodec, each as its UTF-8 bytes:
\* %  2  5  space  e-acute
CodecChars == {<<37>>, <<50>>, <<53>>, <<32>>, <<195, 169>>}

RECURSIVE CharSeqs(_)
CharSeqs(n) ==
    IF n = 0 THEN {<<>>}
    ELSE LET shorter == CharSeqs(n - 1) IN
         shorter \cup {c \o t : c \in CodecChars, t \in shorter}

CodecTitles == CharSeqs(MaxTitleChars)

CodecIdle ==
    /\ ctitle = <<>>
    /\ cslug = <<>>
    /\ cdec = <<>>
    /\ cpc = "idle"

CodecInit ==
    /\ ctitle \in CodecTitles \X CodecTitles
    /\ cslug = <<>>
    /\ cdec = <<>>
    /\ cpc = "encode"

\* Article::path on both titles
CodecEncode ==
    /\ cpc = "encode"
    /\ cslug' = <<Article_path(ctitle[1]), Article_path(ctitle[2])>>
    /\ cpc' = "decode"
    /\ UNCHANGED <<ctitle, cdec, storeVars, mdVars>>

\* urlencoding::decode on both slugs, as Overview::load applies it to a directory name
CodecDecode ==
    /\ cpc = "decode"
    /\ cdec' = <<UrlDecode(cslug[1]), UrlDecode(cslug[2])>>
    /\ cpc' = "done"
    /\ UNCHANGED <<ctitle, cslug, storeVars, mdVars>>

\* ------------------------------------------------------------- file system
\* A path is a sequence of names below the working directory; fs maps every
\* existing path to its node. File contents are opaque blobs.
Contents == {"c1", "c2"}
NoData == "-"

DirNode(t) == [kind |-> "dir", data |-> NoData, mtime |-> t]
FileNode(d, t) == [kind |-> "file", data |-> d, mtime |-> t]

\* split a path string at '/'
RECURSIVE SplitSlash(_, _)
SplitSlash(cur, s) ==
    IF s = <<>> THEN <<cur>>
    ELSE IF Head(s) = 47 THEN <<cur>> \o SplitSlash(<<>>, Tail(s))
    ELSE SplitSlash(Append(cur, Head(s)), Tail(s))

\* the kernel's path walk: "" and "." stay, ".." goes to the parent
RECURSIVE Normalize(_, _)
Normalize(acc, comps) ==
    IF comps = <<>> THEN acc
    ELSE LET c == Head(comps) IN
         IF c = <<>> \/ c = <<46>> THEN Normalize(acc, Tail(comps))
         ELSE IF c = <<46, 46>>
              THEN Normalize(IF acc = <<>> THEN acc ELSE SubSeq(acc, 1, Len(acc) - 1),
                             Tail(comps))
         ELSE Normalize(Append(acc, c), Tail(comps))

PathOf(str) == Normalize(<<>>, SplitSlash(<<>>, str))

Parent(p) == SubSeq(p, 1, Len(p) - 1)
IsDir(f, p) == p \in DOMAIN f /\ f[p].kind = "dir"
IsFile(f, p) == p \in DOMAIN f /\ f[p].kind = "file"

Put(f, p, node) == [q \in DOMAIN f \cup {p} |-> IF q = p THEN node ELSE f[q]]

\* tokio::fs::create_dir: fails when the path exists or its parent is no directory
CanCreateDir(f, p) == p \notin DOMAIN f /\ p # <<>> /\ IsDir(f, Parent(p))
CreateDir(f, p, t) ==
    IF CanCreateDir(f, p)
    THEN Put(Put(f, p, DirNode(t)), Parent(p), DirNode(t))
    ELSE f

\* tokio::fs::write: creates or truncates the file; fails on a directory and
\* when the parent is no directory
CanWrite(f, p) == p # <<>> /\ IsDir(f, Parent(p)) /\ ~IsDir(f, p)
WriteFile(f, p, d, t) ==
    IF ~CanWrite(f, p) THEN f
    ELSE IF p \in DOMAIN f THEN Put(f, p, FileNode(d, t))
    ELSE Put(Put(f, p, FileNode(d, t)), Parent(p), DirNode(t))

\* tokio::fs::read_dir: the paths of the entries of directory p
DirEntries(f, p) == {q \in DOMAIN f : Len(q) = Len(p) + 1 /\ Parent(q) = p}

Slash == <<47>>
ArticlesRoot == Concat(<<CONTENT, Slash, ARTICLES>>)

\* format!("content/articles/{}", self.path())
ArticleDirStr(title) == Concat(<<ArticlesRoot, Slash, Article_path(title)>>)
\* format!("content/articles/{}/{}.md", self.path(), name)
ArticleFileStr(title, name) == Concat(<<ArticleDirStr(title), Slash, name, DOT_MD>>)
IndexPath == PathOf(Concat(<<CONTENT, Slash, INDEX, DOT_MD>>))

UuidReused(n) == <<117, 48>>

\* uuid::Uuid::new_v4().hyphenated() of the n-th request: "u<n>", fresh per request
Uuid(n) == <<117, 48 + n>>

\* ------------------------------------------------------------------ titles
\* the titles posted: "", ".", "..", "A %", "%41", "current.md"
Titles == {<<>>, <<46>>, <<46, 46>>, <<65, 32, 37>>, <<37, 52, 49>>, CURRENT \o DOT_MD}

\* the path segments a handler is given by Path<String>: the titles, their
\* slugs, and "%FF", which decodes to a byte that is no UTF-8
Segments == Titles \cup {Article_path(t) : t \in Titles} \cup {<<37, 70, 70>>}

\* every title a path is formed from: the above and what get_article and
\* edit_article decode them to
PathTitles == Titles \cup Segments \cup {UrlDecode(seg).val : seg \in Segments}

\* the paths of the titles and names above, computed once
ArticleDirTable == [t \in PathTitles |-> PathOf(ArticleDirStr(t))]
\* the names a revision is asked for by: "current", "index", "u0" (never
\* generated) and the uuids of the requests
VersionNames == {CURRENT, INDEX} \cup {Uuid(n) : n \in 0..MaxAppends}
VersionPathTable == [t \in PathTitles, v \in VersionNames |-> PathOf(ArticleFileStr(t, v))]

ArticleDir(title) ==
    IF title \in PathTitles THEN ArticleDirTable[title] ELSE PathOf(ArticleDirStr(title))
VersionPath(title, name) ==
    IF title \in PathTitles /\ name \in VersionNames THEN VersionPathTable[title, name]
    ELSE PathOf(ArticleFileStr(title, name))
CurrentPath(title) == VersionPath(title, CURRENT)

\* ----------------------------------------------------------------- Article
\* Article::load
Article_load(f, title) ==
    IF IsFile(f, CurrentPath(title))
    THEN [some |-> TRUE, content |-> f[CurrentPath(title)].data]
    ELSE [some |-> FALSE, content |-> NoData]

\* Article::load_version
Article_load_version(f, title, version) ==
    LET p == VersionPath(title, version) IN
    IF IsFile(f, p) THEN [some |-> TRUE, content |-> f[p].data]
    ELSE [some |-> FALSE, content |-> NoData]

\* Article::get_versions: the entries pushed to `versions`, in no order (the
\* order is read_dir's); read_dir(..).unwrap() panics when there is no directory
GetVersionsPanics(f, title) == ~IsDir(f, ArticleDir(title))

IsVersionFile(name) == EndsWith(name, DOT_MD)

Article_get_versions(f, title) ==
    {[id |-> RemoveAll(q[Len(q)], DOT_MD), edited |-> f[q].mtime] :
        q \in {e \in DirEntries(f, ArticleDir(title)) : IsVersionFile(e[Len(e)])}}

\* the Vec that get_versions returns: the entries in any order read_dir yields
RECURSIVE Perms(_)
Perms(S) ==
    IF S = {} THEN {<<>>}
    ELSE UNION {{<<x>> \o p : p \in Perms(S \ {x})} : x \in S}

\* ----------------------------------------------------------------- history
\* slice::sort_by_key is stable: an element goes behind every element whose key
\* is not greater than its own
RECURSIVE InsertByKey(_, _)
InsertByKey(sorted, e) ==
    IF sorted = <<>> THEN <<e>>
    ELSE IF Head(sorted).edited <= e.edited
         THEN <<Head(sorted)>> \o InsertByKey(Tail(sorted), e)
    ELSE <<e>> \o sorted

RECURSIVE SortByKey(_)
SortByKey(v) ==
    IF v = <<>> THEN <<>>
    ELSE InsertByKey(SortByKey(SubSeq(v, 1, Len(v) - 1)), v[Len(v)])

Reverse(v) == [i \in 1..Len(v) |-> v[Len(v) + 1 - i]]

SortNewestFirstKeepingTies(listing) == Reverse(SortByKey(Reverse(listing)))

SortOldestFirst(listing) == SortByKey(listing)

\* versions.sort_by_key(|(_, edited)| *edited); versions.reverse()
SortNewestFirst(listing) == Reverse(SortByKey(listing))

\* ---------------------------------------------------------------- handlers
\* A handler that only reads is a function of the store (and of the order in
\* which read_dir yields the entries): its response in store f.
Resp(status, title, content) == [status |-> status, title |-> title, content |-> content]

\* get_article: the path segment is decoded once more, then Article::load;
\* 200 with the article, or a redirect to the editor
get_article(f, seg) ==
    LET d == UrlDecode(seg) IN
    IF ~d.ok THEN Resp("panic", seg, NoData)
    ELSE LET a == Article_load(f, d.val) IN
         IF a.some THEN Resp("ok", d.val, a.content) ELSE Resp("redirect", d.val, NoData)

\* article_version: Article::load_version or the 404 page
article_version(f, title, version) ==
    LET a == Article_load_version(f, title, version) IN
    IF a.some THEN Resp("ok", title, a.content) ELSE Resp("not_found", title, NoData)

\* article_history: History.versions for every order get_versions may return
\* the entries in (the timestamps still unformatted); no response at all when
\* get_versions panics
article_history(f, title) ==
    IF GetVersionsPanics(f, title) THEN {}
    ELSE {SortNewestFirst(listing) : listing \in Perms(Article_get_versions(f, title))}

\* Overview::load: the (slug, title) of every directory below content/articles;
\* urlencoding::decode(..).unwrap() panics on a name that is no UTF-8 once decoded
ArticlesPath == PathOf(ArticlesRoot)
OverviewDirs(f) == {q[Len(q)] : q \in {e \in DirEntries(f, ArticlesPath) : f[e].kind = "dir"}}
OverviewPanics(f) == \E slug \in OverviewDirs(f) : ~UrlDecode(slug).ok
Overview_load(f) == {[slug |-> slug, title |-> UrlDecode(slug).val] : slug \in OverviewDirs(f)}

\* get_overview: Overview::load, and no response when it panics
get_overview(f) ==
    IF OverviewPanics(f) THEN Resp("panic", <<>>, NoData) ELSE Resp("ok", <<>>, NoData)

\* String::new(), the content edit_article offers when Article::load is None
EmptyContent == ""

\* edit_article: the path segment is decoded once more, then Article::load;
\* the editor with the article's content or with an empty one
edit_article(f, seg) ==
    LET d == UrlDecode(seg) IN
    IF ~d.ok THEN Resp("panic", seg, NoData)
    ELSE LET a == Article_load(f, d.val) IN
         Resp("ok", d.val, IF a.some THEN a.content ELSE EmptyContent)

\* Index::load: read_to_string("content/index.md").await.unwrap()
IndexLoadPanics(f) == ~IsFile(f, IndexPath)
Index_load(f) == f[IndexPath].data

\* get_index: the Index rendered; no response when Index::load panics
get_index(f) ==
    IF IndexLoadPanics(f) THEN Resp("panic", <<>>, NoData)
    ELSE Resp("ok", <<>>, Index_load(f))

\* edit_index: the editor with the content of the Index
edit_index(f) ==
    IF IndexLoadPanics(f) THEN Resp("panic", <<>>, NoData)
    ELSE Resp("ok", <<>>, Index_load(f))

\* Path<String>: axum percent-decodes the raw segment of the request path
\* before the handler runs, and answers 400 itself when that is no UTF-8
PathParam(raw) == UrlDecode(raw)

\* GET /article/:id
GET_article(f, raw) ==
    LET p == PathParam(raw) IN
    IF ~p.ok THEN Resp("bad_request", raw, NoData) ELSE get_article(f, p.val)

\* GET /edit/article/:id
GET_edit_article(f, raw) ==
    LET p == PathParam(raw) IN
    IF ~p.ok THEN Resp("bad_request", raw, NoData) ELSE edit_article(f, p.val)

\* ------------------------------------------------------------------ events
NoTitle == <<>>
NoId == <<>>
Ev(op, title, content, id, status) ==
    [op |-> op, title |-> title, content |-> content, id |-> id, status |-> status]
IoStep == Ev("io", NoTitle, NoData, NoId, "none")

\* ----------------------------------------------------- the other two specs idle
MdIdle ==
    /\ mdoc = <<>>
    /\ mpos = 0
    /\ mout = <<>>

StoreIdle ==
    /\ fs = <<>>
    /\ now = 0
    /\ inflight = {}
    /\ nreq = 0
    /\ done = {}
    /\ last = IoStep

\* ------------------------------------------------------------------- store
StoreInit ==
    /\ fs = [p \in {<<CONTENT>>, <<CONTENT, ARTICLES>>, <<CONTENT, MEDIA>>} |-> DirNode(0)]
    /\ now = 0
    /\ inflight = {}
    /\ nreq = 0
    /\ done = {}
    /\ last = IoStep

\* the clock advances between any two steps, or does not
Tick ==
    /\ now < MaxClock
    /\ now' = now + 1
    /\ UNCHANGED <<fs, inflight, nreq, done, last, codecVars, mdVars>>

\* post_article up to the first await of Article::write_to_disk: create_dir,
\* whose result is dropped (let _ =)
post_article(t, c) ==
    /\ nreq < MaxAppends
    /\ nreq' = nreq + 1
    /\ fs' = CreateDir(fs, ArticleDir(t), now)
    /\ inflight' = inflight \cup {[n |-> nreq + 1, title |-> t, content |-> c,
                                   pc |-> "write_version", after |-> {d.n : d \in done}]}
    /\ last' = IoStep
    /\ UNCHANGED <<now, done, codecVars, mdVars>>

WriteVersionSkipped(f, p, d, t) == f

\* write_to_disk, the first tokio::fs::write: the revision file <uuid>.md
WriteVersion(f, p, d, t) == WriteFile(f, p, d, t)

\* the first write; an error returns through `?` and post_article's unwrap()
\* panics
write_version(r) ==
    /\ r \in inflight
    /\ r.pc = "write_version"
    /\ LET p == VersionPath(r.title, Uuid(r.n)) IN
       IF CanWrite(fs, p)
       THEN /\ fs' = WriteVersion(fs, p, r.content, now)
            /\ inflight' = (inflight \ {r}) \cup {[r EXCEPT !.pc = "write_current"]}
            /\ last' = IoStep
       ELSE /\ fs' = fs
            /\ inflight' = inflight \ {r}
            /\ last' = Ev("post_article", r.title, r.content, Uuid(r.n), "panic")
    /\ UNCHANGED <<now, nreq, done, codecVars, mdVars>>

WriteCurrentSkipped(f, p, d, t) == f

\* write_to_disk, the second tokio::fs::write: current.md
WriteCurrent(f, p, d, t) == WriteFile(f, p, d, t)

\* the second write and the rest of post_article: unwrap(), then the redirect
write_current(r) ==
    /\ r \in inflight
    /\ r.pc = "write_current"
    /\ inflight' = inflight \ {r}
    /\ LET p == CurrentPath(r.title) IN
       IF CanWrite(fs, p)
       THEN /\ fs' = WriteCurrent(fs, p, r.content, now)
            /\ done' = done \cup {r}
            /\ last' = Ev("post_article", r.title, r.content, Uuid(r.n), "redirect")
       ELSE /\ fs' = fs
            /\ done' = done
            /\ last' = Ev("post_article", r.title, r.content, Uuid(r.n), "panic")
    /\ UNCHANGED <<now, nreq, codecVars, mdVars>>

\* update_index: Index::write_to_disk, unwrap(), redirect to "/"
update_index(c) ==
    /\ IF CanWrite(fs, IndexPath)
       THEN /\ fs' = WriteFile(fs, IndexPath, c, now)
            /\ last' = Ev("update_index", NoTitle, c, NoId, "redirect")
       ELSE /\ fs' = fs
            /\ last' = Ev("update_index", NoTitle, c, NoId, "panic")
    /\ UNCHANGED <<now, inflight, nreq, done, codecVars, mdVars>>

\* ---------------------------------------------------------------- Markdown
\* custom_md, as far as links go. A document is its link constructs in order
\* and its link reference definitions (label -> target); texts, labels and
\* targets are sequences of string pieces.
\*   inline     [text](url)
\*   shortcut   [label]
\*   collapsed  [label][]
\*   full       [text][label]
ARTICLE_PREFIX == <<"/article/">>
Labels == {<<"Other Page">>, <<"Q">>}
InlineUrls == {<<"http://x">>, <<"/article/", "Q">>}
DefUrls == {<<"/custom">>}
RefSyntaxes == {"shortcut", "collapsed", "full"}
LinkText == <<"text">>

LinkConstructs ==
    {[syntax |-> "inline", text |-> LinkText, label |-> <<>>, url |-> u] : u \in InlineUrls}
    \cup {[syntax |-> "full", text |-> LinkText, label |-> l, url |-> <<>>] : l \in Labels}
    \cup {[syntax |-> x, text |-> l, label |-> l, url |-> <<>>] :
            x \in {"shortcut", "collapsed"}, l \in Labels}

RECURSIVE LinkSeqs(_)
LinkSeqs(n) ==
    IF n = 0 THEN {<<>>}
    ELSE LET shorter == LinkSeqs(n - 1) IN
         shorter \cup {<<l>> \o t : l \in LinkConstructs, t \in shorter}

Definitions == UNION {[D -> DefUrls] : D \in SUBSET Labels}
Docs == [links : LinkSeqs(MaxLinks), defs : Definitions]

\* pulldown_cmark::LinkType of a reference construct, resolved and unresolved
RefType(syntax) ==
    CASE syntax = "shortcut" -> "Shortcut"
      [] syntax = "collapsed" -> "Collapsed"
      [] syntax = "full" -> "Reference"
ToUnknown(link_type) ==
    CASE link_type = "Shortcut" -> "ShortcutUnknown"
      [] link_type = "Collapsed" -> "CollapsedUnknown"
      [] link_type = "Reference" -> "ReferenceUnknown"

\* handle_broken_link: Some((reference, reference)), the target and the title
handle_broken_link(broken_link) == <<broken_link.reference, broken_link.reference>>

\* Parser::new_with_broken_link_callback: the Tag::Link of a link construct; a
\* reference whose label has no definition goes through the callback
ParseLink(doc, l) ==
    IF l.syntax = "inline"
    THEN [link_type |-> "Inline", dest |-> l.url, title |-> <<>>]
    ELSE IF l.label \in DOMAIN doc.defs
         THEN [link_type |-> RefType(l.syntax), dest |-> doc.defs[l.label], title |-> <<>>]
    ELSE LET r == handle_broken_link([reference |-> l.label, link_type |-> RefType(l.syntax)])
         IN [link_type |-> ToUnknown(RefType(l.syntax)), dest |-> r[1], title |-> r[2]]

RewriteEveryShortcut(tag) ==
    IF tag.link_type \in {"Shortcut", "ShortcutUnknown"}
    THEN [tag EXCEPT !.dest = ARTICLE_PREFIX \o tag.dest]
    ELSE tag

\* the closure mapped over the events: Tag::Link(link_type, dest, title)
RewriteLink(tag) ==
    IF tag.link_type = "ShortcutUnknown"
    THEN [tag EXCEPT !.dest = ARTICLE_PREFIX \o tag.dest]
    ELSE tag

MdInit ==
    /\ mdoc \in Docs
    /\ mpos = 0
    /\ mout = <<>>

\* custom_md on the next link: the parser's event, the rewrite, html::push_html
custom_md ==
    /\ mdoc # <<>>
    /\ mpos < Len(mdoc.links)
    /\ mpos' = mpos + 1
    /\ mout' = Append(mout, RewriteLink(ParseLink(mdoc, mdoc.links[mpos + 1])))
    /\ UNCHANGED <<mdoc, storeVars, codecVars>>

InitMd == StoreIdle /\ CodecIdle /\ MdInit
NextMd == custom_md
SpecMd == InitMd /\ [][NextMd]_vars

Init == StoreInit /\ CodecIdle /\ MdIdle
Next ==
    \/ Tick
    \/ \E t \in Titles, c \in Contents : post_article(t, c)
    \/ \E r \in inflight : write_version(r)
    \/ \E r \in inflight : write_current(r)
    \/ \E c \in Contents : update_index(c)
Spec == Init /\ [][Next]_vars

InitCodec == StoreIdle /\ CodecInit /\ MdIdle
NextCodec == CodecEncode \/ CodecDecode
SpecCodec == InitCodec /\ [][NextCodec]_vars
\* ================================================================== claims
Some(c) == [some |-> TRUE, content |-> c]
AppendDone == last.op = "post_article" /\ last.status = "redirect"
Quiescent == inflight = {}

\* the revision files of a title's directory: the listed entries named by a uuid
RevisionIds == {Uuid(n) : n \in 1..MaxAppends}
Revisions(f, title) == {v \in Article_get_versions(f, title) : v.id \in RevisionIds}

NoOtherAppendTo(title) == \A r \in inflight : r.title # title

\* C1: right after an append of (T, C) has completed with Ok while no other
\* append to T is in progress, Article::load(T) returns C, and Article::get_versions(T) lists the id of the revision this
\* append created, whose content through Article::load_version is C.
C1_AppendThenRead ==
    (AppendDone /\ NoOtherAppendTo(last.title)) =>
        /\ Article_load(fs, last.title) = Some(last.content)
        /\ last.id \in RevisionIds
        /\ \E v \in Article_get_versions(fs, last.title) :
               /\ v.id = last.id
               /\ Article_load_version(fs, last.title, v.id) = Some(last.content)

\* an append has just completed, no other append is in progress, and the title
\* is one the slug codec has to escape
C1_Witness ==
    /\ AppendDone
    /\ Quiescent
    /\ last.title = <<65, 32, 37>>
    /\ Article_load(fs, last.title) = Some(last.content)
    /\ Cardinality(done) = 2

\* C2 (as claimed): no step changes or removes what Article::load_version
\* returns for an id that Article::get_versions lists.
C2_ListedNeverChanges ==
    [][\A t \in Titles : \A v \in Article_get_versions(fs, t) :
          Article_load_version(fs', t, v.id) = Article_load_version(fs, t, v.id)]_vars

\* C3 (as claimed): once no append is in progress, the content of the current
\* alias of T is the content of a revision of T with the latest creation time.
C3_AliasIsLatest ==
    Quiescent =>
        \A t \in Titles :
            (Article_load(fs, t).some /\ Revisions(fs, t) # {}) =>
                \E v \in Revisions(fs, t) :
                    /\ \A w \in Revisions(fs, t) : w.edited <= v.edited
                    /\ Article_load_version(fs, t, v.id) = Article_load(fs, t)

IndexOf(h, id) == CHOOSE i \in 1..Len(h) : h[i].id = id
Listed(h, id) == \E i \in 1..Len(h) : h[i].id = id
EditedOf(f, d) == f[VersionPath(d.title, Uuid(d.n))].mtime

\* C4: in every history of T (article_history, whatever the order read_dir
\* yields), the revisions of the completed appends to T are all present, and of
\* two appended at different times the later one comes first.
C4_HistoryNewestFirst ==
    \A t \in Titles : \A h \in article_history(fs, t) :
        \A d1 \in done : \A d2 \in done :
            (d1.title = t /\ d2.title = t) =>
                /\ Listed(h, Uuid(d1.n))
                /\ EditedOf(fs, d1) < EditedOf(fs, d2) =>
                       IndexOf(h, Uuid(d2.n)) < IndexOf(h, Uuid(d1.n))

\* two appends to one title have completed at different times
C4_Witness ==
    \E d1 \in done : \E d2 \in done :
        /\ d1.title = d2.title
        /\ EditedOf(fs, d1) < EditedOf(fs, d2)
        /\ \A h \in article_history(fs, d1.title) :
               IndexOf(h, Uuid(d2.n)) < IndexOf(h, Uuid(d1.n))

\* C5 (as claimed): once no append is in progress, the titles Overview::load
\* returns are exactly the titles that received a completed append.
C5_CatalogExact ==
    Quiescent =>
        /\ ~OverviewPanics(fs)
        /\ {a.title : a \in Overview_load(fs)} = {d.title : d \in done}

Ok(v) == [ok |-> TRUE, val |-> v]

\* C6: decoding the slug of a title (urlencoding::decode of Article::path, as
\* Overview::load does) gives back exactly the title, and two different titles
\* never have the same slug.
C6_SlugRoundTrip ==
    cpc = "done" =>
        /\ cdec[1] = Ok(ctitle[1])
        /\ cdec[2] = Ok(ctitle[2])
        /\ cslug[1] = cslug[2] => ctitle[1] = ctitle[2]

\* the titles "%25" and "%" have been encoded and decoded: the first is what a
\* codec that kept '%' would produce for the second
C6_Witness ==
    /\ cpc = "done"
    /\ ctitle = <<<<37, 50, 53>>, <<37>>>>
    /\ cslug[1] # cslug[2]
    /\ cdec[1] = Ok(ctitle[1])

\* C7: when an append of (T, C2) completes that started after an append of
\* (T, C1) had completed, Article::load(T) returns C2 and the listing of T holds
\* two different ids, one read back as C1 and one as C2.
C7_SequentialAppends ==
    AppendDone =>
        \A d2 \in done : \A d1 \in done :
            (Uuid(d2.n) = last.id /\ d1.title = d2.title /\ d1.n \in d2.after) =>
                /\ Article_load(fs, d2.title) = Some(d2.content)
                /\ Uuid(d1.n) # Uuid(d2.n)
                /\ \E v \in Article_get_versions(fs, d2.title) :
                       /\ v.id = Uuid(d1.n)
                       /\ Article_load_version(fs, d2.title, v.id) = Some(d1.content)
                /\ \E v \in Article_get_versions(fs, d2.title) :
                       /\ v.id = Uuid(d2.n)
                       /\ Article_load_version(fs, d2.title, v.id) = Some(d2.content)

\* the second of two sequential appends of different contents to one title has
\* just completed
C7_Witness ==
    /\ AppendDone
    /\ \E d2 \in done : \E d1 \in done :
           /\ Uuid(d2.n) = last.id
           /\ d1.title = d2.title
           /\ d1.n \in d2.after
           /\ d1.content # d2.content
           /\ Article_load(fs, d2.title) = Some(d2.content)

Undefined(i) ==
    /\ mdoc.links[i].syntax \in RefSyntaxes
    /\ mdoc.links[i].label \notin DOMAIN mdoc.defs

\* C8 (as claimed): every rendered reference link whose label has no definition
\* in the document, in any of the three reference syntaxes, has the target
\* "/article/" followed by the label.
C8_FallbackEverySyntax ==
    \A i \in 1..mpos :
        Undefined(i) => mout[i].dest = ARTICLE_PREFIX \o mdoc.links[i].label

\* C9: every rendered inline link has the target written in it, and every
\* rendered reference link whose label is defined has the defined target,
\* whatever else the document defines.
C9_ResolvedUntouched ==
    \A i \in 1..mpos :
        LET l == mdoc.links[i] IN
        /\ l.syntax = "inline" => mout[i].dest = l.url
        /\ (l.syntax \in RefSyntaxes /\ l.label \in DOMAIN mdoc.defs) =>
               mout[i].dest = mdoc.defs[l.label]

\* a document with a definition for "Other Page" only, in which a shortcut
\* reference to "Other Page" and a shortcut reference to the undefined "Q" have
\* been rendered
C9_Witness ==
    /\ mpos = 2
    /\ DOMAIN mdoc.defs = {<<"Other Page">>}
    /\ mdoc.links[1].syntax = "shortcut" /\ mdoc.links[1].label = <<"Other Page">>
    /\ mdoc.links[2].syntax = "shortcut" /\ mdoc.links[2].label = <<"Q">>
    /\ mout[1].dest = <<"/custom">>
    /\ mout[2].dest = <<"/article/", "Q">>

\* C10 (as claimed): once no append is in progress, the listing of a title with
\* completed appends has exactly one entry per completed append, and none of
\* its entries is the current alias.
C10_OneEntryPerAppend ==
    Quiescent =>
        \A t \in Titles :
            LET appends == {d \in done : d.title = t} IN
            appends # {} =>
                /\ Cardinality(Article_get_versions(fs, t)) = Cardinality(appends)
                /\ \A v \in Article_get_versions(fs, t) : v.id # CURRENT

\* C11 (as claimed): for a title that was never written, Article::get_versions
\* does not panic and returns no entry, and the history of the title is empty.
\* Before the first append is submitted no title was ever written. (The title
\* "..", whose directory content/ also holds the Index, is the matter of C16.)
C11_AbsentListsEmpty ==
    nreq = 0 =>
        \A t \in Titles \ {<<46, 46>>} :
            /\ ~GetVersionsPanics(fs, t)
            /\ Article_get_versions(fs, t) = {}
            /\ article_history(fs, t) = {<<>>}

\* the path segments whose percent-decoding is no UTF-8
Malformed == {seg \in Segments : ~UrlDecode(seg).ok}

\* C12 (as claimed): given a path segment whose percent-decoding is not valid
\* text, get_article answers like for an absent article, with the redirect to
\* the editor, and edit_article with the editor on empty content; neither
\* panics.
C12_MalformedSlugIsNotFound ==
    \A seg \in Malformed :
        /\ get_article(fs, seg).status = "redirect"
        /\ edit_article(fs, seg).status = "ok"
        /\ edit_article(fs, seg).content = EmptyContent

\* C13 (as claimed): a write handler whose write to disk failed answers with a
\* failure response; no request ends in a panic, which sends no response.
C13_FailureIsAnswered ==
    last.op \in {"post_article", "update_index"} =>
        last.status \in {"redirect", "failure"}

\* C14 (as claimed): GET /article/<slug of T> for a title T that has no current
\* alias answers with the redirect to the editor for T, and article_version for
\* a revision name that T has no file for answers not-found.
C14_AbsenceIsSurfaced ==
    \A t \in Titles :
        /\ ~IsFile(fs, CurrentPath(t)) =>
               GET_article(fs, Article_path(t)) = Resp("redirect", t, NoData)
        /\ \A v \in VersionNames :
               ~IsFile(fs, VersionPath(t, v)) =>
                   article_version(fs, t, v) = Resp("not_found", t, NoData)

\* article_history for the order `listing` in which get_versions returned the
\* entries: do two entries of equal timestamp keep (or swap) their order?
TiesKept(listing, h) ==
    \A i \in 1..Len(listing) : \A j \in 1..Len(listing) :
        (i < j /\ listing[i].edited = listing[j].edited) =>
            IndexOf(h, listing[i].id) < IndexOf(h, listing[j].id)
TiesSwapped(listing, h) ==
    \A i \in 1..Len(listing) : \A j \in 1..Len(listing) :
        (i < j /\ listing[i].edited = listing[j].edited) =>
            IndexOf(h, listing[j].id) < IndexOf(h, listing[i].id)

\* C15 (as claimed): in the history of a title, entries of equal timestamp are
\* in the relative order in which Article::get_versions returned them.
C15_TiesInListingOrder ==
    \A t \in Titles : \A listing \in Perms(Article_get_versions(fs, t)) :
        TiesKept(listing, SortNewestFirst(listing))

\* C15 (amended): in the history of a title, entries of equal timestamp are in
\* the reverse of the relative order in which Article::get_versions returned
\* them.
C15_TiesInReverseListingOrder ==
    \A t \in Titles : \A listing \in Perms(Article_get_versions(fs, t)) :
        TiesSwapped(listing, SortNewestFirst(listing))

\* an append to "A %" has completed within one tick of the clock: its revision
\* and the alias carry the same timestamp, and the history has them in the
\* reverse of their order in the listing
C15_Witness ==
    \E d \in done :
        /\ d.title = <<65, 32, 37>>
        /\ \E listing \in Perms(Article_get_versions(fs, d.title)) :
               /\ Len(listing) = 2
               /\ listing[1].edited = listing[2].edited
               /\ SortNewestFirst(listing) = <<listing[2], listing[1]>>

\* C16 (as claimed): an Index update with content C that succeeded leaves
\* Index::load returning C, and changes for no title what Article::get_versions
\* lists (no history entry appears), what Article::load returns, or the catalog.
C16_IndexUpdateFrame ==
    [][\A c \in Contents :
          (update_index(c) /\ last'.status = "redirect") =>
              /\ ~IndexLoadPanics(fs')
              /\ Index_load(fs') = c
              /\ Overview_load(fs') = Overview_load(fs)
              /\ \A t \in Titles :
                     /\ Article_load(fs', t) = Article_load(fs, t)
                     /\ {v.id : v \in Article_get_versions(fs', t)}
                            = {v.id : v \in Article_get_versions(fs, t)}]_vars

\* C17 (as claimed): while the Index was never written, edit_index answers with
\* the editor on empty content; before any article was written, GET
\* /edit/article/<slug of T> answers with the editor for T on empty content.
C17_EditOfAbsentIsEmpty ==
    /\ IndexPath \notin DOMAIN fs => edit_index(fs) = Resp("ok", <<>>, EmptyContent)
    /\ nreq = 0 =>
           \A t \in Titles :
               GET_edit_article(fs, Article_path(t)) = Resp("ok", t, EmptyContent)

\* C18 (as claimed): right after an append of (T, C) has completed while no
\* other append to T is in progress, GET /article/<slug of T> answers with the
\* article whose title is T and whose content is C.
C18_RouteReadAfterWrite ==
    (AppendDone /\ NoOtherAppendTo(last.title)) =>
        GET_article(fs, Article_path(last.title)) = Resp("ok", last.title, last.content)

\* the titles of the append requests that take the step
Stepped == {r.title : r \in (inflight \ inflight') \cup (inflight' \ inflight)}

\* C19 (as claimed): a step of an append to T changes, for no title U other
\* than T, what Article::load returns, the ids Article::get_versions lists or
\* what Article::load_version returns for them, and it leaves the Index as it is.
C19_AppendTouchesOwnDirectory ==
    [][\A t \in Stepped :
          /\ IndexLoadPanics(fs') = IndexLoadPanics(fs)
          /\ ~IndexLoadPanics(fs) => Index_load(fs') = Index_load(fs)
          /\ \A u \in Titles \ {t} :
                 /\ Article_load(fs', u) = Article_load(fs, u)
                 /\ {v.id : v \in Article_get_versions(fs', u)}
                        = {v.id : v \in Article_get_versions(fs, u)}
                 /\ \A v \in Article_get_versions(fs, u) :
                        Article_load_version(fs', u, v.id)
                            = Article_load_version(fs, u, v.id)]_vars

====
